---- MODULE Spec2Model ----
(***************************************************************************)
(* Leaderboard persistence of swolecast-combine-guessoff.                  *)
(*                                                                         *)
(* Two submit handlers live in api/leaderboard-submit.ts: the blob handler *)
(* (one JSON document, read - push - trim - overwrite) and the sorted-set  *)
(* handler (zadd to the mode key and to the "all" key, then trimSortedSet  *)
(* on both).  api/leaderboard-get.ts is the query handler over the blob.   *)
(* Every await in the source is a step boundary; the code between two      *)
(* awaits runs as one action.                                              *)
(***************************************************************************)
EXTENDS Integers, Sequences, FiniteSets, TLC

\* ------------------------------------------------------------------ bounds
NumProcs   == 2      \* requests, each handled by its own invocation of a handler
MaxTime    == 2      \* last value of the millisecond clock (it starts at 1)
NumRand    == 2      \* distinct outcomes of Math.random().toString(36).slice(2, 8)

Procs    == 1..NumProcs
RandVals == 0..(NumRand - 1)

\* ------------------------------------------------------- api/_lib/leaderboard.ts
MAX_LEADERBOARD_ENTRIES == 50

VALID_GAME_MODES ==
  <<"speedsort", "benchsort", "draftsort", "schoolmatch", "quick", "endless",
    "positionchallenge">>

\* A check that lets "all" through.
isStoredGameModeOrAll(value) ==
  value = "all" \/ \E i \in 1..Len(VALID_GAME_MODES) : VALID_GAME_MODES[i] = value

isStoredGameMode(value) ==
  \E i \in 1..Len(VALID_GAME_MODES) : VALID_GAME_MODES[i] = value

isReadGameMode(value) == value = "all" \/ isStoredGameMode(value)

getLeaderboardKey(mode) == <<"leaderboard:", mode>>

\* JS values of type unknown are records [type, ...]; a string is its sequence
\* of characters, a number is finite or not and, when finite, counted in halves
\* (halves = 3 is 1.5) so that Math.round has something to round.
Str(chars)   == [type |-> "string", chars |-> chars, finite |-> FALSE, halves |-> 0]
Num(halves)  == [type |-> "number", chars |-> <<>>, finite |-> TRUE, halves |-> halves]
NaN          == [type |-> "number", chars |-> <<>>, finite |-> FALSE, halves |-> 0]
Infinity     == [type |-> "number", chars |-> <<>>, finite |-> FALSE, halves |-> 1]
Undefined    == [type |-> "undefined", chars |-> <<>>, finite |-> FALSE, halves |-> 0]

\* sanitize* return string | null and number | null: [null, val].
Null(zero)   == [null |-> TRUE, val |-> zero]
Some(v)      == [null |-> FALSE, val |-> v]

IsWhiteSpace(c) == c = " "

RECURSIVE TrimStart(_)
TrimStart(s) ==
  IF s # <<>> /\ IsWhiteSpace(Head(s)) THEN TrimStart(Tail(s)) ELSE s

RECURSIVE TrimEnd(_)
TrimEnd(s) ==
  IF s # <<>> /\ IsWhiteSpace(s[Len(s)]) THEN TrimEnd(SubSeq(s, 1, Len(s) - 1)) ELSE s

\* String.prototype.trim
Trim(s) == TrimEnd(TrimStart(s))

\* A limit of 19 characters.
sanitizePlayerNameAtMost19(value) ==
  IF value.type # "string" THEN Null(<<>>)
  ELSE LET trimmed == Trim(value.chars)
       IN  IF trimmed = <<>> \/ Len(trimmed) > 19 THEN Null(<<>>) ELSE Some(trimmed)

\* A check that returns the name as it was sent.
sanitizePlayerNameUntrimmed(value) ==
  IF value.type # "string" THEN Null(<<>>)
  ELSE LET trimmed == Trim(value.chars)
       IN  IF trimmed = <<>> \/ Len(trimmed) > 20 THEN Null(<<>>) ELSE Some(value.chars)

sanitizePlayerName(value) ==
  IF value.type # "string" THEN Null(<<>>)
  ELSE LET trimmed == Trim(value.chars)
       IN  IF trimmed = <<>> \/ Len(trimmed) > 20 THEN Null(<<>>) ELSE Some(trimmed)

\* Math.round(x) = floor(x + 1/2), on x = halves / 2
MathRound(halves) == (halves + 1) \div 2

MathMax(a, b) == IF a >= b THEN a ELSE b

sanitizeScore(value) ==
  IF value.type # "number" \/ ~value.finite THEN Null(0)
  ELSE Some(MathMax(0, MathRound(value.halves)))

\* id is `${Date.now()}-${random}`: the pair <<t, r>>; date is the same instant.
createStoredEntry(playerName, gameMode, score, t, r) ==
  [id |-> <<t, r>>, playerName |-> playerName, gameMode |-> gameMode,
   score |-> score, date |-> t]

createEntry(playerName, gameMode, score, t, r) ==
  [id |-> <<t, r>>, playerName |-> playerName, gameMode |-> gameMode,
   score |-> score, date |-> t]

\* ------------------------------------------------------------ array helpers
Range(s) == {s[i] : i \in 1..Len(s)}

Min2(a, b) == IF a <= b THEN a ELSE b

\* Array.prototype.slice(from, to), 0-based, to exclusive
Slice(s, from, to) == SubSeq(s, from + 1, Min2(to, Len(s)))

MaxScore(s) == CHOOSE m \in {s[i].score : i \in 1..Len(s)} :
                 \A i \in 1..Len(s) : s[i].score <= m

\* entries.sort((a, b) => b.score - a.score): Array.prototype.sort is stable,
\* so the result is, score by score from the highest, the entries of that
\* score in their order in the array.
RECURSIVE SortByScoreDesc(_)
SortByScoreDesc(s) ==
  IF s = <<>> THEN <<>>
  ELSE LET m == MaxScore(s)
           IsMax(e) == e.score = m
           NotMax(e) == e.score # m
       IN  SelectSeq(s, IsMax) \o SortByScoreDesc(SelectSeq(s, NotMax))

FilterMode(s, mode) ==
  LET Same(e) == e.gameMode = mode IN SelectSeq(s, Same)

\* findIndex(e => e.id === id): 0-based, -1 when absent
FindIndex(s, id) ==
  IF \E i \in 1..Len(s) : s[i].id = id
  THEN (CHOOSE i \in 1..Len(s) : s[i].id = id /\ \A j \in 1..(i - 1) : s[j].id # id) - 1
  ELSE -1

\* A trim that sorts each mode and keeps every entry.
RECURSIVE TrimPerModeKeepsAll(_)
TrimPerModeKeepsAll(entries) ==
  IF entries = <<>> THEN <<>>
  ELSE LET mode == entries[1].gameMode
           Other(e) == e.gameMode # mode
       IN  SortByScoreDesc(FilterMode(entries, mode))
             \o TrimPerModeKeepsAll(SelectSeq(entries, Other))

\* "Keep only top entries per mode": byMode is a Map, iterated in the order
\* in which the modes first appear in data.entries.
RECURSIVE TrimPerMode(_)
TrimPerMode(entries) ==
  IF entries = <<>> THEN <<>>
  ELSE LET mode == entries[1].gameMode
           Other(e) == e.gameMode # mode
       IN  Slice(SortByScoreDesc(FilterMode(entries, mode)), 0, MAX_LEADERBOARD_ENTRIES)
             \o TrimPerMode(SelectSeq(entries, Other))

\* rank = modeEntries.findIndex(e => e.id === entry.id) + 1
RankOf(trimmed, entry) ==
  FindIndex(SortByScoreDesc(FilterMode(trimmed, entry.gameMode)), entry.id) + 1

\* ------------------------------------------------------------------ state
VARIABLES
  now,        \* Date.now(), in milliseconds
  doc,        \* data.entries of the stored blob leaderboard.json
  version,    \* number of puts the blob store has applied
  bpc,        \* blob submit handler: the await each request is parked at
  bval,       \* blob submit handler: playerName, gameMode, score after validation
  bdata,      \* blob submit handler: data.entries
  bentry,     \* blob submit handler: entry
  breadVer,   \* blob submit handler: version of the document its read returned
  bresp,      \* blob submit handler: the response sent
  qres,       \* query handler: the response sent
  zset,       \* the sorted sets of the kv store, by key: their members
  kpc,        \* sorted-set submit handler: where each request stands
  kop,        \* sorted-set submit handler: the store call in flight per key
  ktotal,     \* sorted-set submit handler: total of trimSortedSet, per key
  kentry,     \* sorted-set submit handler: entry
  kresp,      \* sorted-set submit handler: the response sent
  vreq,       \* validation: the request body under validation
  vres,       \* validation: what the checks of the handlers make of it
  appMode,    \* App: mode, the screen shown: the menu or the game mounted
  onRecordScore, \* App: identity of the inline callback of the last render
  draft,      \* DraftSort: its state, its ref and the deps of its effect
  quick,      \* QuickRound: its state, its ref and the deps of its effect
  calls,      \* the invocations of onRecordScore so far, in order
  game        \* number of games started so far

bvars == <<doc, version, bpc, bval, bdata, bentry, breadVer, bresp>>
kvars == <<zset, kpc, kop, ktotal, kentry, kresp>>
vvars == <<vreq, vres>>
gvars == <<appMode, onRecordScore, draft, quick, calls, game>>
vars  == <<now, doc, version, bpc, bval, bdata, bentry, breadVer, bresp, qres,
           zset, kpc, kop, ktotal, kentry, kresp, vreq, vres,
           appMode, onRecordScore, draft, quick, calls, game>>

\* ---------------------------------------------------------------------
\* The game components that record the score of a finished game.

\* QuickRound plays TOTAL_ROUNDS rounds, 100 points for each one known.
TOTAL_ROUNDS == 10

\* Games started in one run.
MaxGames == 3

\* DraftSort scores totalCorrect * 10 for the players placed in their round;
\* the numbers of correct placements tried.
Corrects == {0, 18, 21}

\* App passes onRecordScore as an inline arrow function: every render of App
\* makes a new one.  Two identities tell a new one from the last.
NewCallback(cb) == 1 - cb

\* DraftSort as mounted: useState(false), useState(0), useRef(false); its
\* score-recording effect has not run, so it has no deps yet.
DraftSortMounted ==
  [allSlotsFilled |-> FALSE, revealed |-> FALSE, score |-> 0,
   scoreRecordedRef |-> FALSE, deps |-> <<>>]

\* QuickRound as mounted; timeout is the pending setTimeout of handleNext,
\* reload the window.location.reload() asked for.
QuickRoundMounted ==
  [currentRound |-> 0, revealed |-> FALSE, score |-> 0, gameOver |-> FALSE,
   timeout |-> FALSE, reload |-> FALSE,
   scoreRecordedRef |-> FALSE, deps |-> <<>>]

InitGame ==
  /\ appMode = "menu"
  /\ onRecordScore = 0
  /\ draft = DraftSortMounted
  /\ quick = QuickRoundMounted
  /\ calls = <<>>
  /\ game = 0

\* One invocation of onRecordScore: the game it was made in, the component
\* that made it, the callback invoked and the score passed.
Call(g, component, cb, score) ==
  [game |-> g, component |-> component, onRecordScore |-> cb, score |-> score]

\* The deps of the score-recording effects.
DraftDeps(c, cb) == <<cb, c.revealed, c.score>>
QuickDeps(c, cb) == <<c.gameOver, "Quick Round", cb, c.score>>

DraftSkipsIgnoringRef(c) == ~c.revealed

\* The early return of the effects:
\* if (!revealed || scoreRecordedRef.current) return;
DraftSkips(c) == ~c.revealed \/ c.scoreRecordedRef
\* if (!gameOver || scoreRecordedRef.current) return;
QuickSkips(c) == ~c.gameOver \/ c.scoreRecordedRef

\* A commit of DraftSort in state c with the prop cb: the effect runs when
\* its deps differ from those of its last run, and unless it returns early
\* it sets the ref and invokes onRecordScore(score).
DraftEffect(c, cb) ==
  IF DraftDeps(c, cb) = c.deps THEN c
  ELSE IF DraftSkips(c) THEN [c EXCEPT !.deps = DraftDeps(c, cb)]
  ELSE [c EXCEPT !.deps = DraftDeps(c, cb), !.scoreRecordedRef = TRUE]

DraftCalls(c, cb, g) ==
  IF DraftDeps(c, cb) = c.deps \/ DraftSkips(c) THEN <<>>
  ELSE <<Call(g, "DraftSort", cb, c.score)>>

\* The same of QuickRound: onRecordScore(leaderboardMode, score).
QuickEffect(c, cb) ==
  IF QuickDeps(c, cb) = c.deps THEN c
  ELSE IF QuickSkips(c) THEN [c EXCEPT !.deps = QuickDeps(c, cb)]
  ELSE [c EXCEPT !.deps = QuickDeps(c, cb), !.scoreRecordedRef = TRUE]

QuickCalls(c, cb, g) ==
  IF QuickDeps(c, cb) = c.deps \/ QuickSkips(c) THEN <<>>
  ELSE <<Call(g, "QuickRound", cb, c.score)>>

\* DraftSort renders state c and commits.
DraftCommit(c, cb, g) ==
  /\ draft' = DraftEffect(c, cb)
  /\ calls' = calls \o DraftCalls(c, cb, g)

\* QuickRound renders state c and commits.
QuickCommit(c, cb, g) ==
  /\ quick' = QuickEffect(c, cb)
  /\ calls' = calls \o QuickCalls(c, cb, g)

\* A button of the menu: setMode(m).  App renders again and mounts the
\* component of the mode, whose effects run.
SetMode(m) ==
  /\ appMode = "menu"
  /\ game < MaxGames
  /\ appMode' = m
  /\ onRecordScore' = NewCallback(onRecordScore)
  /\ game' = game + 1
  /\ IF m = "draftsort"
       THEN /\ DraftCommit(DraftSortMounted, onRecordScore', game')
            /\ UNCHANGED quick
       ELSE /\ QuickCommit(QuickRoundMounted, onRecordScore', game')
            /\ UNCHANGED draft
  /\ UNCHANGED <<now, bvars, qres, kvars, vvars>>

\* App renders again for a change of its own state (a fetch of the player
\* files that resolves, the name being edited): the component mounted gets
\* a new onRecordScore.
AppRender ==
  /\ onRecordScore' = NewCallback(onRecordScore)
  /\ IF appMode = "draftsort"
       THEN DraftCommit(draft, onRecordScore', game) /\ UNCHANGED quick
       ELSE IF appMode = "quick"
         THEN QuickCommit(quick, onRecordScore', game) /\ UNCHANGED draft
         ELSE UNCHANGED <<draft, quick, calls>>
  /\ UNCHANGED <<now, bvars, qres, kvars, vvars, appMode, game>>

\* onQuit: setMode('menu') unmounts the component and its state is gone.
OnQuit ==
  /\ appMode # "menu"
  /\ appMode' = "menu"
  /\ onRecordScore' = NewCallback(onRecordScore)
  /\ draft' = DraftSortMounted
  /\ quick' = QuickRoundMounted
  /\ UNCHANGED <<now, bvars, qres, kvars, vvars, calls, game>>

\* DraftSort: the player fills the last slot, or takes a player back out.
PlaceSlots(filled) ==
  /\ appMode = "draftsort"
  /\ ~draft.revealed
  /\ draft.allSlotsFilled # filled
  /\ DraftCommit([draft EXCEPT !.allSlotsFilled = filled], onRecordScore, game)
  /\ UNCHANGED <<now, bvars, qres, kvars, vvars, appMode, onRecordScore, quick,
                 game>>

\* DraftSort handleLockIn: setRevealed(true) and setScore(points) of one
\* click, rendered together.
handleLockIn(totalCorrect) ==
  /\ appMode = "draftsort"
  /\ draft.allSlotsFilled /\ ~draft.revealed
  /\ DraftCommit([draft EXCEPT !.revealed = TRUE, !.score = totalCorrect * 10],
                 onRecordScore, game)
  /\ UNCHANGED <<now, bvars, qres, kvars, vvars, appMode, onRecordScore, quick,
                 game>>

\* DraftSort resetGame, the Play Again button of the revealed board.
resetGame ==
  /\ appMode = "draftsort"
  /\ draft.revealed
  /\ game < MaxGames
  /\ game' = game + 1
  /\ DraftCommit([draft EXCEPT !.allSlotsFilled = FALSE, !.revealed = FALSE,
                               !.score = 0, !.scoreRecordedRef = FALSE],
                 onRecordScore, game')
  /\ UNCHANGED <<now, bvars, qres, kvars, vvars, appMode, onRecordScore, quick>>

\* QuickRound handleSubmit: the round is revealed, 100 points if known.
handleSubmit(knowsBall) ==
  /\ appMode = "quick"
  /\ ~quick.revealed
  /\ QuickCommit([quick EXCEPT !.revealed = TRUE,
                    !.score = IF knowsBall THEN @ + 100 ELSE @],
                 onRecordScore, game)
  /\ UNCHANGED <<now, bvars, qres, kvars, vvars, appMode, onRecordScore, draft,
                 game>>

\* QuickRound handleNext: after the last round it sets the timeout that ends
\* the game, otherwise the next round starts, not revealed.
handleNext ==
  /\ appMode = "quick"
  /\ quick.revealed /\ ~quick.gameOver
  /\ LET next == quick.currentRound + 1
     IN IF next >= TOTAL_ROUNDS
          THEN QuickCommit([quick EXCEPT !.timeout = TRUE], onRecordScore, game)
          ELSE QuickCommit([quick EXCEPT !.currentRound = next,
                                         !.revealed = FALSE],
                           onRecordScore, game)
  /\ UNCHANGED <<now, bvars, qres, kvars, vvars, appMode, onRecordScore, draft,
                 game>>

\* The timeout of handleNext fires: setGameOver(true).
GameOverTimeout ==
  /\ appMode = "quick"
  /\ quick.timeout
  /\ QuickCommit([quick EXCEPT !.timeout = FALSE, !.gameOver = TRUE],
                 onRecordScore, game)
  /\ UNCHANGED <<now, bvars, qres, kvars, vvars, appMode, onRecordScore, draft,
                 game>>

\* QuickRound's Play Again button: the state and the ref are reset and
\* the page is asked to reload.  Back at round 0, the effect that follows
\* the round hides the answer again.
PlayAgain ==
  /\ appMode = "quick"
  /\ quick.gameOver
  /\ game < MaxGames
  /\ game' = game + 1
  /\ QuickCommit([quick EXCEPT !.gameOver = FALSE, !.score = 0,
                               !.currentRound = 0, !.revealed = FALSE,
                               !.scoreRecordedRef = FALSE, !.reload = TRUE],
                 onRecordScore, game')
  /\ UNCHANGED <<now, bvars, qres, kvars, vvars, appMode, onRecordScore, draft>>

\* The page reloads: App starts again at the menu.
Reload ==
  /\ appMode = "quick"
  /\ quick.reload
  /\ appMode' = "menu"
  /\ onRecordScore' = 0
  /\ draft' = DraftSortMounted
  /\ quick' = QuickRoundMounted
  /\ UNCHANGED <<now, bvars, qres, kvars, vvars, calls, game>>

NextGame ==
  \/ \E m \in {"draftsort", "quick"} : SetMode(m)
  \/ AppRender
  \/ OnQuit
  \/ \E filled \in BOOLEAN : PlaceSlots(filled)
  \/ \E totalCorrect \in Corrects : handleLockIn(totalCorrect)
  \/ resetGame
  \/ \E knowsBall \in BOOLEAN : handleSubmit(knowsBall)
  \/ handleNext
  \/ GameOverTimeout
  \/ PlayAgain
  \/ Reload


NoEntry == createEntry(<<>>, "", 0, 0, 0)
NoVal   == [playerName |-> <<>>, gameMode |-> "", score |-> 0]

\* res.status(status) and the body: { success: true, rank, entry }, or an
\* { error } or nothing, where success is FALSE.
Response(status, success, rank, entry) ==
  [status |-> status, success |-> success, rank |-> rank, entry |-> entry]
NoResp == Response(0, FALSE, 0, NoEntry)

\* The sorted-set handler answers { ok: true, entry } or { error }.
KvResponse(status, ok, entry) == [status |-> status, ok |-> ok, entry |-> entry]
NoKvResp == KvResponse(0, FALSE, NoEntry)

\* The requests the handlers are driven with.
Request(method, hasBody, playerName, gameMode, score) ==
  [method |-> method, hasBody |-> hasBody, playerName |-> playerName,
   gameMode |-> gameMode, score |-> score]

SubmitModes == {"speedsort", "quick"}

ValidRequests ==
  { Request("POST", TRUE, Str(<<" ", "a">>), Str("speedsort"), Num(h)) : h \in {-1, 2, 3} }
    \cup { Request("POST", TRUE, Str(<<"a">>), Str("quick"), Num(2)) }

InvalidRequests ==
  { Request("GET", TRUE, Str(<<"a">>), Str("speedsort"), Num(2)),
    Request("OPTIONS", FALSE, Undefined, Undefined, Undefined),
    Request("POST", FALSE, Undefined, Undefined, Undefined),
    Request("POST", TRUE, Str(<<" ">>), Str("speedsort"), Num(2)),
    Request("POST", TRUE, Str(<<"a">>), Str("all"), Num(2)),
    Request("POST", TRUE, Str(<<"a">>), Str("speedsort"), NaN) }

Requests == ValidRequests \cup InvalidRequests

NoRequest == Request("", FALSE, Undefined, Undefined, Undefined)
NoValidation == [name |-> Null(<<>>), score |-> Null(0), blob |-> -1, kv |-> -1, query |-> -1]

KvRequests ==
  { Request("POST", TRUE, Str(<<"a", " ">>), Str("speedsort"), Num(h)) : h \in {0, 2} }
    \cup { Request("POST", TRUE, Str(<<"a">>), Str("quick"), Num(3)) }
    \cup InvalidRequests

\* A document that earlier submissions have left behind: n entries of one
\* mode and one score, created one millisecond apart before the clock starts.
Prefill(n) ==
  [k \in 1..n |->
     createEntry(<<"a">>, "speedsort", 1, k - MAX_LEADERBOARD_ENTRIES, 0)]

InitSizes == {0, 1, MAX_LEADERBOARD_ENTRIES - 1, MAX_LEADERBOARD_ENTRIES}

\* The two keys one sorted-set request writes: its mode's and "all".
Slots == {"mode", "all"}
KvModes == SubmitModes \cup {"all"}
KvKeys == {getLeaderboardKey(m) : m \in KvModes}

\* The sorted sets the same earlier submissions have left behind.
PrefillKv(n) ==
  [k \in KvKeys |->
     IF k \in {getLeaderboardKey("speedsort"), getLeaderboardKey("all")}
     THEN Prefill(n) ELSE <<>>]

NoQuery == [status |-> 0, mode |-> "", scores |-> <<>>]

\* The stores and the handlers before any request.
InitHandlers ==
  /\ now = 1
  /\ \E n \in InitSizes : doc = Prefill(n) /\ zset = PrefillKv(n)
  /\ kpc = [p \in Procs |-> "idle"]
  /\ kop = [p \in Procs |-> [s \in Slots |-> "none"]]
  /\ ktotal = [p \in Procs |-> [s \in Slots |-> 0]]
  /\ kentry = [p \in Procs |-> NoEntry]
  /\ kresp = [p \in Procs |-> NoKvResp]
  /\ version = 0
  /\ bpc = [p \in Procs |-> "idle"]
  /\ bval = [p \in Procs |-> NoVal]
  /\ bdata = [p \in Procs |-> <<>>]
  /\ bentry = [p \in Procs |-> NoEntry]
  /\ breadVer = [p \in Procs |-> 0]
  /\ bresp = [p \in Procs |-> NoResp]
  /\ qres = NoQuery
  /\ InitGame

Init ==
  /\ InitHandlers
  /\ vreq = NoRequest
  /\ vres = NoValidation

\* Date.now() never runs backwards: a read of the clock returns the last
\* value read or a later one.  now is the last value read.
ClockValues == now..MaxTime

\* Requests are numbered in the order of their arrival, and each goes to one
\* of the two submit handlers.
Arrives(p) ==
  /\ bpc[p] = "idle" /\ kpc[p] = "idle"
  /\ \A q \in Procs : q < p => bpc[q] # "idle" \/ kpc[q] # "idle"

\* --------------------------------------- api/leaderboard-submit.ts, blob handler
\* Lines 33-63: the status the handler answers with before it touches the
\* store, 0 when the request passes.
BlobValidate(req) ==
  LET gameMode == IF req.gameMode.type = "string" THEN req.gameMode.chars ELSE ""
  IN  IF req.method = "OPTIONS" THEN 200
      ELSE IF req.method # "POST" THEN 405
      ELSE IF ~req.hasBody THEN 400
      ELSE IF sanitizePlayerName(req.playerName).null THEN 400
      ELSE IF ~isStoredGameMode(gameMode) THEN 400
      ELSE IF sanitizeScore(req.score).null THEN 400
      ELSE 0

Validated(req) ==
  [playerName |-> sanitizePlayerName(req.playerName).val,
   gameMode   |-> req.gameMode.chars,
   score      |-> sanitizeScore(req.score).val]

\* Lines 29-65: a request arrives, is validated, and either is answered at
\* once or goes on to await getLeaderboardData().
BlobReceive(p, req) ==
  /\ Arrives(p)
  /\ IF BlobValidate(req) # 0
     THEN /\ bresp' = [bresp EXCEPT ![p] = Response(BlobValidate(req), FALSE, 0, NoEntry)]
          /\ bpc' = [bpc EXCEPT ![p] = "done"]
          /\ UNCHANGED bval
     ELSE /\ bval' = [bval EXCEPT ![p] = Validated(req)]
          /\ bpc' = [bpc EXCEPT ![p] = "read"]
          /\ UNCHANGED bresp
  /\ UNCHANGED <<now, doc, version, bdata, bentry, breadVer, qres, kvars, vvars, gvars>>

\* A read that answers with the stored entries even when it fails.
getLeaderboardDataAlways(ok) == doc

\* getLeaderboardData (lines 9-19): the stored entries, or { entries: [] }
\* when no blob is listed or the list or the fetch throws.
getLeaderboardData(ok) == IF ok THEN doc ELSE <<>>

\* Line 65: the read returns.
BlobRead(p, ok) ==
  /\ bpc[p] = "read"
  /\ bdata' = [bdata EXCEPT ![p] = getLeaderboardData(ok)]
  /\ breadVer' = [breadVer EXCEPT ![p] = IF ok THEN version ELSE -1]
  /\ bpc' = [bpc EXCEPT ![p] = "build"]
  /\ UNCHANGED <<now, doc, version, bval, bentry, bresp, qres, kvars, vvars, gvars>>

\* Lines 66-84: createEntry, push, trim per mode, and the put is issued.
BlobBuild(p, t, r) ==
  /\ bpc[p] = "build"
  /\ now' = t
  /\ LET entry == createEntry(bval[p].playerName, bval[p].gameMode, bval[p].score, t, r)
     IN  /\ bentry' = [bentry EXCEPT ![p] = entry]
         /\ bdata' = [bdata EXCEPT ![p] = TrimPerMode(Append(bdata[p], entry))]
  /\ bpc' = [bpc EXCEPT ![p] = "save"]
  /\ UNCHANGED <<doc, version, bval, breadVer, bresp, qres, kvars, vvars, gvars>>

\* saveLeaderboardData (lines 21-27): put overwrites the blob with the
\* handler's document, whatever the store holds by then.
saveLeaderboardData(data) ==
  /\ doc' = data
  /\ version' = version + 1

\* Lines 84-91: the put is applied, the rank is computed, 200 is sent.
BlobSave(p) ==
  /\ bpc[p] = "save"
  /\ saveLeaderboardData(bdata[p])
  /\ bresp' = [bresp EXCEPT ![p] = Response(200, TRUE, RankOf(bdata[p], bentry[p]), bentry[p])]
  /\ bpc' = [bpc EXCEPT ![p] = "done"]
  /\ UNCHANGED <<now, bval, bdata, bentry, breadVer, qres, kvars, vvars, gvars>>

\* Lines 92-95: the put throws; nothing is written and 500 is sent.
BlobSaveFails(p) ==
  /\ bpc[p] = "save"
  /\ bresp' = [bresp EXCEPT ![p] = Response(500, FALSE, 0, NoEntry)]
  /\ bpc' = [bpc EXCEPT ![p] = "done"]
  /\ UNCHANGED <<now, doc, version, bval, bdata, bentry, breadVer, qres, kvars, vvars, gvars>>

BlobArrival == \E p \in Procs, req \in Requests : BlobReceive(p, req)

BlobSteps ==
  \/ \E p \in Procs, ok \in BOOLEAN : BlobRead(p, ok)
  \/ \E p \in Procs, t \in ClockValues, r \in RandVals : BlobBuild(p, t, r)
  \/ \E p \in Procs : BlobSave(p)
  \/ \E p \in Procs : BlobSaveFails(p)

BlobNext == BlobArrival \/ BlobSteps

\* ------------------------------------------------ api/leaderboard-get.ts
QueryRequest(method, kind, vals) == [method |-> method, kind |-> kind, vals |-> vals]

\* req.query.mode is a string, an array of strings or undefined.
QueryRequests ==
  { QueryRequest("GET", "string", <<m>>) : m \in {"speedsort", "all", "Speedsort"} }
    \cup { QueryRequest("GET", "undefined", <<>>),
           QueryRequest("GET", "array", <<"quick", "speedsort">>),
           QueryRequest("GET", "array", <<>>),
           QueryRequest("POST", "string", <<"all">>) }

\* Line 32: Array.isArray(rawMode) ? rawMode[0] : rawMode || 'all'; the
\* undefined first element of an empty array is the falsy "".
QueryMode(req) ==
  IF req.kind = "array" THEN (IF req.vals = <<>> THEN "" ELSE req.vals[1])
  ELSE IF req.kind = "undefined" \/ req.vals[1] = "" THEN "all"
  ELSE req.vals[1]

\* A query that lists every entry.
QueryScoresKeepsAll(entries, mode) ==
  LET filtered == IF mode = "all" THEN entries ELSE FilterMode(entries, mode)
      top == SortByScoreDesc(filtered)
  IN  [i \in 1..Len(top) |->
         [playerName |-> top[i].playerName, score |-> top[i].score,
          date |-> top[i].date, gameMode |-> top[i].gameMode, rank |-> (i - 1) + 1]]

\* Lines 41-58: filter, sort by score descending, take the first 50, rank.
QueryScores(entries, mode) ==
  LET filtered == IF mode = "all" THEN entries ELSE FilterMode(entries, mode)
      top == Slice(SortByScoreDesc(filtered), 0, 50)
  IN  [i \in 1..Len(top) |->
         [playerName |-> top[i].playerName, score |-> top[i].score,
          date |-> top[i].date, gameMode |-> top[i].gameMode, rank |-> (i - 1) + 1]]

\* Lines 21-60: the whole response for a request, ok being whether the read
\* of the blob went through.
QueryResponse(req, ok) ==
  IF req.method = "OPTIONS" THEN [status |-> 200, mode |-> "", scores |-> <<>>]
  ELSE IF req.method # "GET" THEN [status |-> 405, mode |-> "", scores |-> <<>>]
  ELSE IF QueryMode(req) = "" \/ ~isReadGameMode(QueryMode(req))
       THEN [status |-> 400, mode |-> QueryMode(req), scores |-> <<>>]
  ELSE [status |-> 200, mode |-> QueryMode(req),
        scores |-> QueryScores(getLeaderboardData(ok), QueryMode(req))]

\* A query that empties the document.
QueryClearsDoc(req, ok) ==
  /\ qres' = QueryResponse(req, ok)
  /\ doc' = <<>>
  /\ UNCHANGED <<now, version, bpc, bval, bdata, bentry, breadVer, bresp, kvars, vvars, gvars>>

Query(req, ok) ==
  /\ qres' = QueryResponse(req, ok)
  /\ UNCHANGED <<now, bvars, kvars, vvars, gvars>>

QueryNext == \E req \in QueryRequests, ok \in BOOLEAN : Query(req, ok)

\* ---------------------------------- api/leaderboard-submit.ts, sorted-set handler
\* Members are JSON.stringify(entry); a sorted set orders them by score and,
\* among equal scores, by the member string, which starts with the id (the
\* digits of Date.now(), then the random suffix), then the playerName and the
\* gameMode.  Strings compare by code unit; a name ends at its closing quote.
CharCode(c) == CASE c = " " -> 32 [] c = "\"" -> 34 [] c = "a" -> 97 [] OTHER -> 98

RECURSIVE SeqLess(_, _)
SeqLess(a, b) ==
  IF b = <<>> THEN FALSE
  ELSE IF a = <<>> THEN TRUE
  ELSE IF CharCode(Head(a)) # CharCode(Head(b)) THEN CharCode(Head(a)) < CharCode(Head(b))
  ELSE SeqLess(Tail(a), Tail(b))

AlphabeticalModes ==
  <<"benchsort", "draftsort", "endless", "positionchallenge", "quick", "schoolmatch",
    "speedsort">>

ModeIndex(m) == CHOOSE i \in 1..Len(AlphabeticalModes) : AlphabeticalModes[i] = m

MemberLess(a, b) ==
  IF a.id[1] # b.id[1] THEN a.id[1] < b.id[1]
  ELSE IF a.id[2] # b.id[2] THEN a.id[2] < b.id[2]
  ELSE IF a.playerName # b.playerName
       THEN SeqLess(Append(a.playerName, "\""), Append(b.playerName, "\""))
  ELSE IF a.gameMode # b.gameMode THEN ModeIndex(a.gameMode) < ModeIndex(b.gameMode)
  ELSE FALSE

ZLess(a, b) == a.score < b.score \/ (a.score = b.score /\ MemberLess(a, b))

\* A sorted set is the sequence of its members in rank order, rank 0 first.
\* kv.zadd(key, { score, member }): the member takes its place in the order;
\* a member already there stays once.
zadd(set, member) ==
  LET Below(x) == ZLess(x, member)
      Above(x) == ZLess(member, x)
  IN  SelectSeq(set, Below) \o <<member>> \o SelectSeq(set, Above)

\* kv.zcard(key)
zcard(set) == Len(set)

\* kv.zremrangebyrank(key, start, stop): a negative index counts from the end
ZIndex(i, n) == IF i < 0 THEN MathMax(0, n + i) ELSE i

\* A removal that removes nothing.
zremrangebyrankKeepsAll(set, start, stop) == set

zremrangebyrank(set, start, stop) ==
  LET n == Len(set)
  IN  SubSeq(set, 1, Min2(ZIndex(start, n), n))
        \o SubSeq(set, MathMax(ZIndex(start, n), ZIndex(stop, n) + 1) + 1, n)

\* Every mode written under one key.
KeyOfOneKey(p, slot) ==
  IF slot = "all" THEN getLeaderboardKey("all") ELSE getLeaderboardKey("speedsort")

\* Lines 173-174: modeKey and allKey
KeyOf(p, slot) ==
  IF slot = "all" THEN getLeaderboardKey("all") ELSE getLeaderboardKey(kentry[p].gameMode)

\* Lines 128-168: 0 when the request passes, else the status answered.
KvValidate(req) ==
  LET playerName == IF req.hasBody THEN req.playerName ELSE Undefined
      score == IF req.hasBody THEN req.score ELSE Undefined
      rawMode == IF req.hasBody /\ req.gameMode.type = "string" THEN req.gameMode.chars ELSE ""
  IN  IF req.method # "POST" THEN 405
      ELSE IF sanitizePlayerName(playerName).null THEN 400
      ELSE IF sanitizeScore(score).null THEN 400
      ELSE IF ~isStoredGameMode(rawMode) THEN 400
      ELSE 0

\* A handler that writes before it validates.
KvReceiveWritesFirst(p, req, t, r) ==
  /\ Arrives(p)
  /\ now' = t
  /\ zset' = [zset EXCEPT ![getLeaderboardKey("all")] =
                zadd(@, createStoredEntry(<<"a">>, "speedsort", 0, t, r))]
  /\ kresp' = [kresp EXCEPT ![p] = KvResponse(IF KvValidate(req) # 0 THEN KvValidate(req) ELSE 200,
                                              KvValidate(req) = 0, NoEntry)]
  /\ kpc' = [kpc EXCEPT ![p] = "done"]
  /\ UNCHANGED <<bvars, qres, kentry, kop, ktotal, vvars, gvars>>

\* Lines 127-179: validation, createStoredEntry, and both zadd calls are issued.
KvReceive(p, req, t, r) ==
  /\ Arrives(p)
  /\ IF KvValidate(req) # 0
     THEN /\ kresp' = [kresp EXCEPT ![p] = KvResponse(KvValidate(req), FALSE, NoEntry)]
          /\ kpc' = [kpc EXCEPT ![p] = "done"]
          /\ UNCHANGED <<now, kentry, kop>>
     ELSE /\ kentry' = [kentry EXCEPT ![p] =
               createStoredEntry(Validated(req).playerName, Validated(req).gameMode,
                                 Validated(req).score, t, r)]
          /\ now' = t
          /\ kop' = [kop EXCEPT ![p] = [s \in Slots |-> "zadd"]]
          /\ kpc' = [kpc EXCEPT ![p] = "adding"]
          /\ UNCHANGED kresp
  /\ UNCHANGED <<bvars, qres, zset, ktotal, vvars, gvars>>

\* Lines 176-181: one zadd is applied; when both are, Promise.all resolves
\* and both trimSortedSet calls start.
KvZadd(p, slot) ==
  /\ kop[p][slot] = "zadd"
  /\ zset' = [zset EXCEPT ![KeyOf(p, slot)] = zadd(@, kentry[p])]
  /\ IF kpc[p] = "adding" /\ \A s \in Slots \ {slot} : kop[p][s] = "added"
     THEN /\ kop' = [kop EXCEPT ![p] = [s \in Slots |-> "zcard"]]
          /\ kpc' = [kpc EXCEPT ![p] = "trimming"]
     ELSE /\ kop' = [kop EXCEPT ![p][slot] = "added"]
          /\ UNCHANGED kpc
  /\ UNCHANGED <<now, bvars, qres, ktotal, kentry, kresp, vvars, gvars>>

\* A failure that takes the entry back out of both sets.
KvCallFailsRollsBack(p, slot) ==
  /\ kop[p][slot] \in {"zadd", "zcard", "zrem"}
  /\ kop' = [kop EXCEPT ![p][slot] = "failed"]
  /\ zset' = [k \in KvKeys |->
               LET Other(e) == e # kentry[p] IN SelectSeq(zset[k], Other)]
  /\ IF kpc[p] \in {"adding", "trimming"}
     THEN /\ kpc' = [kpc EXCEPT ![p] = "done"]
          /\ kresp' = [kresp EXCEPT ![p] = KvResponse(500, FALSE, NoEntry)]
     ELSE UNCHANGED <<kpc, kresp>>
  /\ UNCHANGED <<now, bvars, qres, ktotal, kentry, vvars, gvars>>

\* A failure after which the handler neither answers nor ends.
KvCallFailsSilently(p, slot) ==
  /\ kop[p][slot] \in {"zadd", "zcard", "zrem"}
  /\ kop' = [kop EXCEPT ![p][slot] = "failed"]
  /\ UNCHANGED <<now, bvars, qres, zset, ktotal, kentry, kpc, kresp, vvars, gvars>>

\* A store call of the handler rejects: Promise.all rejects, the handler has
\* no catch, and the platform answers 500.  The sibling call stays in flight.
KvCallFails(p, slot) ==
  /\ kop[p][slot] \in {"zadd", "zcard", "zrem"}
  /\ kop' = [kop EXCEPT ![p][slot] = "failed"]
  /\ IF kpc[p] \in {"adding", "trimming"}
     THEN /\ kpc' = [kpc EXCEPT ![p] = "done"]
          /\ kresp' = [kresp EXCEPT ![p] = KvResponse(500, FALSE, NoEntry)]
     ELSE UNCHANGED <<kpc, kresp>>
  /\ UNCHANGED <<now, bvars, qres, zset, ktotal, kentry, vvars, gvars>>

\* Line 183, reached when both trimSortedSet calls have returned.
KvFinish(p, slot, ops) ==
  IF kpc[p] = "trimming" /\ \A s \in Slots \ {slot} : ops[s] = "trimmed"
  THEN /\ kpc' = [kpc EXCEPT ![p] = "done"]
       /\ kresp' = [kresp EXCEPT ![p] = KvResponse(200, TRUE, kentry[p])]
  ELSE UNCHANGED <<kpc, kresp>>

\* trimSortedSet, lines 120-123: zcard answers; at or under the limit the
\* call returns, else zremrangebyrank is issued.
KvZcard(p, slot) ==
  /\ kop[p][slot] = "zcard"
  /\ LET total == zcard(zset[KeyOf(p, slot)])
     IN  IF total <= MAX_LEADERBOARD_ENTRIES
         THEN /\ kop' = [kop EXCEPT ![p][slot] = "trimmed"]
              /\ KvFinish(p, slot, kop[p])
              /\ UNCHANGED ktotal
         ELSE /\ kop' = [kop EXCEPT ![p][slot] = "zrem"]
              /\ ktotal' = [ktotal EXCEPT ![p][slot] = total]
              /\ UNCHANGED <<kpc, kresp>>
  /\ UNCHANGED <<now, bvars, qres, zset, kentry, vvars, gvars>>

\* Line 123: const stop = total - MAX_LEADERBOARD_ENTRIES - 1
TrimStop(total) == total - MAX_LEADERBOARD_ENTRIES - 1

\* trimSortedSet, line 124
KvZrem(p, slot) ==
  /\ kop[p][slot] = "zrem"
  /\ zset' = [zset EXCEPT ![KeyOf(p, slot)] =
                zremrangebyrank(@, 0, TrimStop(ktotal[p][slot]))]
  /\ kop' = [kop EXCEPT ![p][slot] = "trimmed"]
  /\ KvFinish(p, slot, kop[p])
  /\ UNCHANGED <<now, bvars, qres, ktotal, kentry, vvars, gvars>>

KvArrival ==
  \E p \in Procs, req \in KvRequests, t \in ClockValues, r \in RandVals :
    KvReceive(p, req, t, r)

KvSteps ==
  \/ \E p \in Procs, slot \in Slots : KvZadd(p, slot)
  \/ \E p \in Procs, slot \in Slots : KvCallFails(p, slot)
  \/ \E p \in Procs, slot \in Slots : KvZcard(p, slot)
  \/ \E p \in Procs, slot \in Slots : KvZrem(p, slot)

KvNext == KvArrival \/ KvSteps

\* Concurrent submissions through the blob handler.
Next == BlobNext

Spec == Init /\ [][Next]_vars

\* One submission at a time: a request arrives when no other is in flight.
Quiet == /\ \A p \in Procs : bpc[p] \in {"idle", "done"}
         /\ \A p \in Procs : kpc[p] \in {"idle", "done"}
         /\ \A p \in Procs, s \in Slots : kop[p][s] \notin {"zadd", "zcard", "zrem"}

\* Sequential blob submissions, then queries between them: a query leaves the
\* store alone, so the submissions that could follow one are those that could
\* come before it.
NextQuery ==
  \/ Quiet /\ qres = NoQuery /\ BlobArrival
  \/ BlobSteps
  \/ Quiet /\ QueryNext

SpecQuery == Init /\ [][NextQuery]_vars

\* A query at any point between the steps of concurrent blob submissions;
\* as in NextQuery, the requests that arrive do so before the query.
NextQueryAny ==
  \/ qres = NoQuery /\ BlobArrival
  \/ BlobSteps
  \/ qres = NoQuery /\ QueryNext

SpecQueryAny == Init /\ [][NextQueryAny]_vars

\* Concurrent submissions through the sorted-set handler.
NextKv == KvNext

SpecKv == Init /\ [][NextKv]_vars

\* Sequential submissions, each through either handler.
NextSeq ==
  \/ Quiet /\ BlobArrival
  \/ Quiet /\ KvArrival
  \/ BlobSteps
  \/ KvSteps

SpecSeq == Init /\ [][NextSeq]_vars

\* The same from full stores, where a submission runs every step of its
\* handler, every store call in flight eventually returning or failing.
InitFull == Init /\ doc = Prefill(MAX_LEADERBOARD_ENTRIES)

SpecSeqFair ==
  InitFull /\ [][NextSeq]_vars /\ WF_vars(BlobSteps) /\ WF_vars(KvSteps)

\* The checks both handlers make of a body, applied to bodies at the edges of
\* what they accept.
NameLengths == {0, 1, 19, 20, 21}
Spaces(k) == [i \in 1..k |-> " "]
Letters(n) == [i \in 1..n |-> "a"]

BoundaryNames ==
  { Str(Spaces(k1) \o Letters(n) \o Spaces(k2)) : k1 \in 0..1, k2 \in 0..1, n \in NameLengths }
    \cup { Str(<<"a", " ", "a">>), Str(Letters(19) \o <<" ", "a">>), Undefined, Num(2) }

BoundaryScores ==
  { Num(h) : h \in {-3, -1, 0, 1, 2, 3} }
    \cup { NaN, Infinity, Str(<<"a">>), Undefined }

\* A body without a gameMode (mode identifiers are strings, not sequences).
NoMode == [type |-> "undefined", chars |-> "", finite |-> FALSE, halves |-> 0]

BoundaryModes ==
  { Str(VALID_GAME_MODES[i]) : i \in 1..Len(VALID_GAME_MODES) }
    \cup { Str("all"), Str("Speedsort"), Str("SPEEDSORT"), Str(""), NoMode }

BoundaryRequests ==
  { Request("POST", TRUE, n, m, sc) :
      n \in BoundaryNames, m \in BoundaryModes, sc \in BoundaryScores }

InitValidate ==
  /\ InitHandlers
  /\ vreq \in BoundaryRequests
  /\ vres = NoValidation

\* The query for the mode a body names: ?mode=<gameMode>, or no mode.
QueryFor(gameMode) ==
  IF gameMode.type = "string" THEN QueryRequest("GET", "string", <<gameMode.chars>>)
  ELSE QueryRequest("GET", "undefined", <<>>)

\* Lines 47-63 and 151-168: sanitizePlayerName and sanitizeScore on the body's
\* fields, and the status each handler answers with (0: it goes on to store);
\* leaderboard-get.ts lines 31-37: the status of a query for the same mode.
Validate ==
  /\ vres = NoValidation
  /\ vres' = [name  |-> sanitizePlayerName(vreq.playerName),
              score |-> sanitizeScore(vreq.score),
              blob  |-> BlobValidate(vreq),
              kv    |-> KvValidate(vreq),
              query |-> QueryResponse(QueryFor(vreq.gameMode), TRUE).status]
  /\ UNCHANGED <<now, bvars, qres, kvars, vreq, gvars>>

NextValidate == Validate

SpecValidate == InitValidate /\ [][NextValidate]_vars

\* The games played in the browser, the stores left alone.
InitGames == Init /\ doc = Prefill(0)

SpecGame == InitGames /\ [][NextGame]_vars

\* ================================================================== claims
ModeSize(entries, mode) == Len(FilterMode(entries, mode))

BlobOk(p) == bpc[p] = "done" /\ bresp[p].status = 200 /\ bresp[p].success

\* The step in which request p's put is applied.
Commits(p) == bpc[p] = "save" /\ bpc'[p] = "done" /\ version' = version + 1

\* The capacity cut-off leaves e in: fewer than 50 entries of its mode, among
\* those the two writers hold, score at least as high.
AboveCutOff(e, p, q) ==
  Cardinality({x \in Range(bdata[p]) \cup Range(bdata[q]) \cup {bentry[p], bentry[q]} :
                 x # e /\ x.gameMode = e.gameMode /\ x.score >= e.score})
    < MAX_LEADERBOARD_ENTRIES

\* C1: when two blob submissions read the same stored document, both write
\* and both answer 200, the final document holds both entries (neither being
\* below the capacity cut-off).
C1_NoLostUpdate ==
  \A p, q \in Procs :
    ( /\ p # q /\ BlobOk(p) /\ BlobOk(q)
      /\ breadVer[p] >= 0 /\ breadVer[p] = breadVer[q]
      /\ AboveCutOff(bentry[p], p, q) /\ AboveCutOff(bentry[q], p, q) )
    => bentry[p] \in Range(doc) /\ bentry[q] \in Range(doc)

\* C2: a blob submission's write is applied only if the stored document is
\* the one its read returned (no put has been applied since).
C2_CommitOnlyIfUnchanged ==
  [][\A p \in Procs : (Commits(p) /\ breadVer[p] >= 0) => version = breadVer[p]]_vars

KvSettled ==
  /\ \A p \in Procs : kpc[p] \in {"idle", "done"}
  /\ \A p \in Procs, s \in Slots : kop[p][s] \notin {"zadd", "zcard", "zrem"}

\* Every sorted-set submission that wrote has run its trims to the end.
KvAllTrimmed == \A p \in Procs : kresp[p].status # 500

\* C3: with submissions made one after the other, once each one's write and
\* trim have completed, every mode of the blob document and every sorted set
\* holds at most 50 entries.
C3_Capacity ==
  (Quiet /\ KvAllTrimmed) =>
    /\ \A m \in SubmitModes : ModeSize(doc, m) <= MAX_LEADERBOARD_ENTRIES
    /\ \A k \in KvKeys : zcard(zset[k]) <= MAX_LEADERBOARD_ENTRIES

\* C3 witness: a blob submission and a sorted-set submission have both pushed
\* a full collection over 50 and trimmed it back.
C3_Witness ==
  /\ Quiet
  /\ \E p, q \in Procs :
       /\ BlobOk(p) /\ bresp[p].rank = 1 /\ ModeSize(doc, "speedsort") = MAX_LEADERBOARD_ENTRIES
       /\ Prefill(MAX_LEADERBOARD_ENTRIES)[MAX_LEADERBOARD_ENTRIES] \notin Range(doc)
       /\ kresp[q].ok /\ ktotal[q]["mode"] = MAX_LEADERBOARD_ENTRIES + 1
       /\ zcard(zset[getLeaderboardKey("speedsort")]) = MAX_LEADERBOARD_ENTRIES

\* C4: under every interleaving of the sorted-set handler's zadd, zcard and
\* zremrangebyrank steps, once all submissions in flight have finished, each
\* having run its trims, the mode's set and the "all" set hold at most 50.
C4_Convergence ==
  (KvSettled /\ KvAllTrimmed) =>
    \A k \in KvKeys : zcard(zset[k]) <= MAX_LEADERBOARD_ENTRIES

\* C4 witness: two submissions whose trims both counted 52 members in "all",
\* so both zadds came before either zcard, have finished with 200.
C4_Witness ==
  /\ KvSettled
  /\ \A p \in Procs : kresp[p].ok
  /\ \E p, q \in Procs :
       /\ p # q
       /\ ktotal[p]["all"] = MAX_LEADERBOARD_ENTRIES + 2
       /\ ktotal[q]["all"] = MAX_LEADERBOARD_ENTRIES + 2

\* The submissions of the burst that write key k.
Burst(k) ==
  Cardinality({p \in Procs : /\ kentry[p] # NoEntry
                             /\ k \in {getLeaderboardKey(kentry[p].gameMode),
                                       getLeaderboardKey("all")}})

\* C5 as stated: during a burst of N >= 1 submissions a sorted set never
\* holds more than 50 + N - 1 members.
C5_Original ==
  \A k \in KvKeys :
    Burst(k) >= 1 => zcard(zset[k]) <= MAX_LEADERBOARD_ENTRIES + Burst(k) - 1

\* C5 amended: during a burst of N submissions a sorted set that started with
\* at most 50 members never holds more than 50 + N.
C5_OvershootBound ==
  \A k \in KvKeys : zcard(zset[k]) <= MAX_LEADERBOARD_ENTRIES + Burst(k)

\* C5 witness: two submissions in flight and 52 members in a set.
C5_Witness ==
  \E k \in KvKeys : Burst(k) = 2 /\ zcard(zset[k]) = MAX_LEADERBOARD_ENTRIES + 2

\* The rank of section 4.5, over the entries of e's mode in a snapshot.
SpecRank(e, snapshot) ==
  LET coll == FilterMode(snapshot, e.gameMode)
  IN  1 + Cardinality({i \in 1..Len(coll) : coll[i].score > e.score})
        + Cardinality({i \in 1..Len(coll) :
                         coll[i].score = e.score /\ coll[i].date < e.date})

\* C6: the rank a successful blob submission returns is 1 + the entries of
\* the post-write collection with a greater score + those with an equal score
\* and an earlier timestamp.
C6_RankFormula ==
  \A p \in Procs : BlobOk(p) => bresp[p].rank = SpecRank(bresp[p].entry, bdata[p])

\* C7: every 200 response of the blob handler carries the entry and a rank
\* that is at least 1.
C7_RankAtLeastOne ==
  \A p \in Procs : BlobOk(p) => bresp[p].entry = bentry[p] /\ bresp[p].rank >= 1

\* C8: the snapshot a blob submission ranks on holds its own entry and every
\* entry of its mode stored when its write is applied (its read having gone
\* through and the mode being under capacity, so that nothing is evicted).
C8_RankSnapshot ==
  [][\A p \in Procs :
       ( /\ Commits(p) /\ breadVer[p] >= 0
         /\ ModeSize(doc, bentry[p].gameMode) < MAX_LEADERBOARD_ENTRIES )
       => /\ bentry[p] \in Range(bdata[p])
          /\ \A e \in Range(doc) :
               e.gameMode = bentry[p].gameMode => e \in Range(bdata[p])]_vars

\* What a query shows of an entry.
Shown(e, rank) ==
  [playerName |-> e.playerName, score |-> e.score, date |-> e.date,
   gameMode |-> e.gameMode, rank |-> rank]

\* C9: after a blob submission has answered 200 with a rank r <= 50, the
\* query of its mode made next, on the document it wrote and with the read
\* going through, lists the entry.
C9_NoLossInWindow ==
  \A p \in Procs :
    LET req == QueryRequest("GET", "string", <<bresp[p].entry.gameMode>>)
    IN  ( /\ BlobOk(p) /\ bresp[p].rank <= 50 /\ doc = bdata[p]
          /\ qres.status = 200 /\ qres = QueryResponse(req, TRUE) )
        => \E i \in 1..Len(qres.scores) : qres.scores[i] = Shown(bresp[p].entry, i)

\* C10: an entry leaves the stored document only in a step that writes a
\* collection of its mode holding, with the new entry, more than 50 entries.
C10_OnlyEviction ==
  [][\A e \in Range(doc) :
       e \notin Range(doc') =>
         \E p \in Procs :
           /\ Commits(p)
           /\ ModeSize(doc, e.gameMode)
                + (IF bentry[p].gameMode = e.gameMode THEN 1 ELSE 0)
                > MAX_LEADERBOARD_ENTRIES]_vars

\* C11: the step in which a blob submission to one mode is written, its read
\* having gone through, leaves the stored entries of every other mode as
\* they were.
C11_ModeIsolation ==
  [][\A p \in Procs :
       (Commits(p) /\ breadVer[p] >= 0) =>
         \A m \in SubmitModes \ {bentry[p].gameMode} :
           FilterMode(doc', m) = FilterMode(doc, m)]_vars

\* The order of section 3: score descending, then timestamp ascending.
Before(a, b) == a.score > b.score \/ (a.score = b.score /\ a.date < b.date)

\* kept is a first-50 of all in that order: 50 of them or all, and nothing
\* left out comes before something kept.
IsTop(kept, all) ==
  /\ kept \subseteq all
  /\ Cardinality(kept) = Min2(MAX_LEADERBOARD_ENTRIES, Cardinality(all))
  /\ \A x \in all \ kept, y \in kept : ~Before(x, y)

\* The step in which a sorted set loses members.
Shrinks(k) == Len(zset'[k]) < Len(zset[k])

\* C12: with submissions made one after the other, the collection a
\* submission leaves is the first 50, by score descending then timestamp
\* ascending, of the collection it found and its own entry: in the blob
\* document when the put is applied (the read having gone through), in a
\* sorted set when it is trimmed.
C12_KeepsTop ==
  [][/\ \A p \in Procs :
          (Commits(p) /\ breadVer[p] >= 0) =>
            IsTop(Range(FilterMode(doc', bentry[p].gameMode)),
                  Range(FilterMode(doc, bentry[p].gameMode)) \cup {bentry[p]})
     /\ \A k \in KvKeys :
          Shrinks(k) => IsTop(Range(zset'[k]), Range(zset[k]))]_vars

\* C13: when a trim evicts an entry and keeps another of the same score, the
\* one kept is not the later of the two: in the blob document when the put
\* is applied (the read having gone through), in a sorted set when it is
\* trimmed.
C13_TieBreak ==
  [][/\ \A p \in Procs :
          (Commits(p) /\ breadVer[p] >= 0) =>
            \A x \in (Range(doc) \cup {bentry[p]}) \ Range(doc'), y \in Range(doc') :
              (x.gameMode = y.gameMode /\ x.score = y.score) => x.date >= y.date
     /\ \A k \in KvKeys :
          Shrinks(k) =>
            \A x \in Range(zset[k]) \ Range(zset'[k]), y \in Range(zset'[k]) :
              x.score = y.score => x.date >= y.date]_vars

\* C14: the list a query answers with is in order of score descending and,
\* among equal scores, of timestamp ascending.
C14_QueryOrder ==
  qres.status = 200 =>
    \A i, j \in 1..Len(qres.scores) :
      i < j => \/ qres.scores[i].score > qres.scores[j].score
               \/ /\ qres.scores[i].score = qres.scores[j].score
                  /\ qres.scores[i].date <= qres.scores[j].date

\* C15: a query that follows a query of the same mode, no submission having
\* come between them, answers with the same list.
C15_QueryIdempotent ==
  [][(qres.status = 200 /\ qres'.status = 200 /\ qres'.mode = qres.mode)
       => qres'.scores = qres.scores]_vars

\* Request p is answered 400 in this step, by either handler.
Rejected(p) ==
  \/ bpc[p] = "idle" /\ bpc'[p] # "idle" /\ bresp'[p].status = 400
  \/ kpc[p] = "idle" /\ kpc'[p] # "idle" /\ kresp'[p].status = 400

\* C16: the step in which a submission is rejected by validation issues no
\* store call and leaves the blob document and the sorted sets as they were.
C16_RejectedTouchesNothing ==
  [][\A p \in Procs :
       Rejected(p) =>
         /\ doc' = doc /\ version' = version /\ zset' = zset
         /\ bpc'[p] \in {"idle", "done"} /\ kpc'[p] \in {"idle", "done"}
         /\ kop'[p] = kop[p] /\ bdata'[p] = <<>>]_vars

\* C16 witness: full stores, one request rejected by the blob handler and one
\* by the sorted-set handler.
C16_Witness ==
  /\ doc = Prefill(MAX_LEADERBOARD_ENTRIES) /\ zset = PrefillKv(MAX_LEADERBOARD_ENTRIES)
  /\ \E p, q \in Procs : bresp[p].status = 400 /\ kresp[q].status = 400

BodyChecked == vres # NoValidation

\* C17: score 0 is accepted; a NaN, infinite or non-number score is
\* rejected; a playerName whose trimmed length is 20 is accepted and one of
\* 21 rejected; an empty or whitespace-only playerName is rejected.
C17_Boundaries ==
  BodyChecked =>
    /\ vreq.score = Num(0) => vres.score = Some(0)
    /\ (vreq.score.type # "number" \/ vreq.score \in {NaN, Infinity}) => vres.score.null
    /\ vreq.playerName.type = "string" =>
         LET chars == vreq.playerName.chars
             first == CHOOSE i \in 1..(Len(chars) + 1) :
                        /\ i <= Len(chars) => chars[i] # " "
                        /\ \A j \in 1..(i - 1) : chars[j] = " "
             last  == CHOOSE i \in 0..Len(chars) :
                        /\ i >= 1 => chars[i] # " "
                        /\ \A j \in (i + 1)..Len(chars) : chars[j] = " "
             length == IF first > Len(chars) THEN 0 ELSE last - first + 1
         IN  /\ length = 20 => vres.name = Some(SubSeq(chars, first, last))
             /\ length = 21 => vres.name.null
             /\ length = 0 => vres.name.null

\* C17 witness: a name of 20 characters between two spaces and a score of 0
\* have been through the checks.
C17_Witness ==
  /\ BodyChecked
  /\ vreq.playerName = Str(Spaces(1) \o Letters(20) \o Spaces(1))
  /\ vreq.score = Num(0)
  /\ vres.name = Some(Letters(20))

\* The seven registered mode identifiers.
Registered ==
  {"speedsort", "benchsort", "draftsort", "schoolmatch", "quick", "endless",
   "positionchallenge"}

\* C18: a handler goes on to store a body only when its gameMode is, to the
\* letter, one of the seven registered identifiers; a body whose gameMode is
\* "all" is answered 400 by both submit handlers, while a query of "all" is
\* answered 200.
C18_ModeAccepted ==
  BodyChecked =>
    /\ (vres.blob = 0 \/ vres.kv = 0) =>
         vreq.gameMode.type = "string" /\ vreq.gameMode.chars \in Registered
    /\ vreq.gameMode = Str("all") =>
         vres.blob = 400 /\ vres.kv = 400 /\ vres.query = 200

\* C18 witness: a body with a good name and score and gameMode "all" has been
\* turned down by both submit handlers.
C18_Witness ==
  /\ BodyChecked
  /\ vreq.gameMode = Str("all")
  /\ ~vres.name.null /\ ~vres.score.null
  /\ vres.blob = 400 /\ vres.kv = 400 /\ vres.query = 200

\* A playerName of 1 to 20 characters with no space at either end, a
\* registered gameMode, a score that is a non-negative integer.
WellFormed(e) ==
  /\ Len(e.playerName) \in 1..20
  /\ e.playerName[1] # " " /\ e.playerName[Len(e.playerName)] # " "
  /\ e.gameMode \in Registered
  /\ e.score \in Nat

\* C19: every entry of the blob document and of every sorted set is well
\* formed.
C19_WellFormed ==
  /\ \A e \in Range(doc) : WellFormed(e)
  /\ \A k \in KvKeys : \A e \in Range(zset[k]) : WellFormed(e)

\* C19 witness: the blob document holds an entry sent with a space before the
\* name and a score of -0.5, stored with score 0, and the "all" set holds an
\* entry sent with a space after the name.
C19_Witness ==
  /\ \E p \in Procs :
       BlobOk(p) /\ bentry[p] \in Range(doc) /\ bentry[p].score = 0
  /\ \E q \in Procs :
       kresp[q].ok /\ kentry[q] \in Range(zset[getLeaderboardKey("all")])
         /\ kentry[q].gameMode = "speedsort"

\* The zadd of request p to its mode key was applied and its zadd to "all"
\* failed.
AllWriteFailed(p) == kop[p]["mode"] = "added" /\ kop[p]["all"] = "failed"

\* No trim has found a set over 50, so nothing has been evicted.
NoEviction == \A q \in Procs, s \in Slots : ktotal[q][s] = 0

\* C20: when the zadd to "all" fails and the zadd to the mode key succeeds,
\* the entry stays in the mode set (no eviction having taken place) and,
\* unless another request wrote the very same member, is not in "all".
C20_NoRollback ==
  \A p \in Procs :
    (AllWriteFailed(p) /\ NoEviction) =>
      /\ kentry[p] \in Range(zset[getLeaderboardKey(kentry[p].gameMode)])
      /\ (\A q \in Procs \ {p} : kentry[q] # kentry[p]) =>
           kentry[p] \notin Range(zset[getLeaderboardKey("all")])

\* C20 witness: a request answered 500 whose entry is in its mode set and not
\* in "all", with every other call finished.
C20_Witness ==
  /\ KvSettled /\ NoEviction
  /\ \E p \in Procs :
       /\ AllWriteFailed(p) /\ kresp[p].status = 500
       /\ kentry[p] \in Range(zset[getLeaderboardKey(kentry[p].gameMode)])
       /\ kentry[p] \notin Range(zset[getLeaderboardKey("all")])

\* C21: a sorted-set submission that has terminated has no zadd that was
\* applied and never followed by trimSortedSet on both keys.
C21_TrimAlwaysRuns ==
  \A p \in Procs :
    kpc[p] = "done" => \A s \in Slots : kop[p][s] # "added"

\* C22: a blob submission whose read failed answers with an error, and a
\* sorted-set submission answered 500 has its entry in no sorted set (no
\* other request having written the very same member).
C22_FailureLeavesNothing ==
  /\ \A p \in Procs :
       (bpc[p] = "done" /\ breadVer[p] = -1) => bresp[p].status >= 400
  /\ \A p \in Procs :
       (kresp[p].status = 500 /\ \A q \in Procs \ {p} : kentry[q] # kentry[p])
         => \A k \in KvKeys : kentry[p] \notin Range(zset[k])

\* scores is the first min(50, size) of coll by score descending, the i-th
\* carrying rank i.
IsRankedPrefix(scores, coll) ==
  LET n == Len(scores)
      Listed(e) == \E i \in 1..n : scores[i] = Shown(e, i)
  IN  /\ n = Min2(50, Len(coll))
      /\ \A i \in 1..n : scores[i].rank = i /\ \E e \in Range(coll) : scores[i] = Shown(e, i)
      /\ \A i, j \in 1..n : i < j => scores[i].score >= scores[j].score
      /\ \A e \in Range(coll) : ~Listed(e) => e.score <= scores[n].score

\* C23: the list a query answers with is the first min(50, size) entries, by
\* score, of the entries of the requested mode (of all modes for "all") in
\* the document its read returned, the i-th with rank i.
C23_QueryShape ==
  qres.status = 200 =>
    \E ok \in BOOLEAN :
      LET data == getLeaderboardData(ok)
      IN  IsRankedPrefix(qres.scores,
                         IF qres.mode = "all" THEN data ELSE FilterMode(data, qres.mode))

\* C23 witness: a query of "all" over a document of 51 entries has listed 50.
C23_Witness ==
  /\ qres.status = 200 /\ qres.mode = "all"
  /\ Len(doc) = MAX_LEADERBOARD_ENTRIES + 1
  /\ Len(qres.scores) = 50
  /\ qres.scores[50].rank = 50

\* C24: a query can be answered in every state, whatever the submissions in
\* flight, and the step that answers it leaves the blob document and the
\* sorted sets as they were.
C24_QueryFrame ==
  /\ [](ENABLED QueryNext)
  /\ [][qres' # qres => (doc' = doc /\ version' = version /\ zset' = zset)]_vars

\* C24 witness: a query has listed the stored entries while one submission
\* was between its read and its put and the other had not yet read.
C24_Witness ==
  /\ qres.status = 200 /\ qres.scores # <<>>
  /\ \E p, q \in Procs : bpc[p] = "save" /\ bpc[q] = "read"
  /\ doc = Prefill(MAX_LEADERBOARD_ENTRIES)

\* C25: a query for a valid mode is answered 200 with an empty list when its
\* read fails, and when the document holds no entry.
C25_EmptyOnFailure ==
  \A req \in QueryRequests :
    (req.method = "GET" /\ isReadGameMode(QueryMode(req))) =>
      /\ QueryResponse(req, FALSE).status = 200
      /\ QueryResponse(req, FALSE).scores = <<>>
      /\ doc = <<>> =>
           QueryResponse(req, TRUE).status = 200 /\ QueryResponse(req, TRUE).scores = <<>>

\* C25 witness: a query of speedsort has been answered 200 with an empty list
\* while the document holds speedsort entries, its read having failed.
C25_Witness ==
  /\ qres.status = 200 /\ qres.mode = "speedsort" /\ qres.scores = <<>>
  /\ FilterMode(doc, "speedsort") # <<>>

\* Two entries made from the same { playerName, gameMode, score }.
SameSubmission(a, b) ==
  a.playerName = b.playerName /\ a.gameMode = b.gameMode /\ a.score = b.score

\* C26: no two entries of the blob document share an id, and two submissions
\* of the same { playerName, gameMode, score }, made one after the other and
\* both answered with success, nothing having been evicted, leave two entries
\* with different ids in the mode's collection.
C26_NoDedup ==
  /\ \A i, j \in 1..Len(doc) : i # j => doc[i].id # doc[j].id
  /\ \A p, q \in Procs :
       ( /\ p # q /\ BlobOk(p) /\ BlobOk(q) /\ breadVer[p] >= 0 /\ breadVer[q] >= 0
         /\ SameSubmission(bentry[p], bentry[q])
         /\ ModeSize(doc, bentry[p].gameMode) < MAX_LEADERBOARD_ENTRIES )
       => /\ bentry[p].id # bentry[q].id
          /\ {bentry[p], bentry[q]} \subseteq Range(doc)
  /\ \A p, q \in Procs :
       ( /\ p # q /\ kresp[p].ok /\ kresp[q].ok /\ NoEviction
         /\ SameSubmission(kentry[p], kentry[q]) )
       => /\ kentry[p].id # kentry[q].id
          /\ {kentry[p], kentry[q]}
               \subseteq Range(zset[getLeaderboardKey(kentry[p].gameMode)])
          /\ zcard(zset[getLeaderboardKey(kentry[p].gameMode)]) >= 2

BlobAnswered(p) == bpc[p] = "done" /\ bresp[p].status # 0
KvAnswered(p) == kpc[p] = "done" /\ kresp[p].status # 0

C28_NoOverEviction ==
  [][\A k \in KvKeys : Shrinks(k) => zcard(zset'[k]) >= MAX_LEADERBOARD_ENTRIES]_vars

\* C29: the saved blob document holds at most 50 entries of each registered
\* mode, at most 350 in all, and only entries of registered modes.
C29_DocBounded ==
  /\ \A m \in Registered : ModeSize(doc, m) <= MAX_LEADERBOARD_ENTRIES
  /\ Len(doc) <= MAX_LEADERBOARD_ENTRIES * Cardinality(Registered)
  /\ Len(doc) <= 350
  /\ \A e \in Range(doc) : e.gameMode \in Registered

\* C29 witness: two submissions have been saved onto a full document, one to
\* quick and one that pushed the last speedsort entry out: 50 and 1.
C29_Witness ==
  /\ \A p \in Procs : BlobOk(p) /\ bentry[p] \in Range(doc)
  /\ ModeSize(doc, "speedsort") = MAX_LEADERBOARD_ENTRIES
  /\ ModeSize(doc, "quick") = 1
  /\ Prefill(MAX_LEADERBOARD_ENTRIES)[MAX_LEADERBOARD_ENTRIES] \notin Range(doc)

\* The invocations of onRecordScore made in game g.
CallsOf(g) == {i \in DOMAIN calls : calls[i].game = g}

\* The component mounted shows a finished game.
Finished ==
  \/ appMode = "draftsort" /\ draft.revealed
  \/ appMode = "quick" /\ quick.gameOver

\* No game has two invocations, and a finished game has one.
RecordedOnce ==
  /\ \A g \in 1..MaxGames : Cardinality(CallsOf(g)) <= 1
  /\ Finished => Cardinality(CallsOf(game)) = 1

\* A step invokes onRecordScore at most once, from a component whose ref was
\* clear and is now set; a ref that was set is cleared only by a reset, which
\* starts a new game, or with the component, when it is unmounted.
AgainOnlyAfterReset ==
  /\ Len(calls') > Len(calls) =>
       /\ Len(calls') = Len(calls) + 1
       /\ calls'[Len(calls')].game = game'
       /\ \/ /\ appMode' = "draftsort"
             /\ ~draft.scoreRecordedRef /\ draft'.scoreRecordedRef
          \/ /\ appMode' = "quick"
             /\ ~quick.scoreRecordedRef /\ quick'.scoreRecordedRef
  /\ draft.scoreRecordedRef /\ ~draft'.scoreRecordedRef =>
       game' > game \/ appMode' = "menu"
  /\ quick.scoreRecordedRef /\ ~quick'.scoreRecordedRef =>
       game' > game \/ appMode' = "menu"

\* C30: each finished game records its score once.  In DraftSort and in
\* QuickRound, once revealed or gameOver is reached onRecordScore has been
\* invoked exactly once for the game, however often the effect runs again
\* for a new callback or score, and it is invoked again only after a reset
\* has cleared scoreRecordedRef.
C30_RecordsOnce == [](RecordedOnce) /\ [][AgainOnlyAfterReset]_vars

\* A QuickRound game was recorded, then a DraftSort game was recorded after
\* it, and the effect of DraftSort has since run again with a new callback.
C30_Witness ==
  /\ Len(calls) = 2
  /\ calls[1].component = "QuickRound"
  /\ calls[2].component = "DraftSort" /\ calls[2].game = game
  /\ appMode = "draftsort" /\ draft.revealed /\ draft.scoreRecordedRef
  /\ draft.deps[1] # calls[2].onRecordScore

====
